---- MODULE Spec2Model ----
(***************************************************************************)
(* Model of lib/index.js of linerate_node_rest_api_module: the batch       *)
(* writer Linerate.prototype.work, the transport methods put and get it    *)
(* drives, the type table get_type and the workflow create_vip.            *)
(*                                                                         *)
(* The program is callback-driven JavaScript on one event loop.  A step of *)
(* the model is one turn of that loop: the caller's call, one setImmediate *)
(* callback, or the callback of one HTTP response.  Everything the turn    *)
(* runs synchronously (the partition, the dispatch of a whole phase, a     *)
(* nested call of work, a write that put rejects before sending) is part   *)
(* of that one step.                                                       *)
(*                                                                         *)
(* The repository requires the async library and names no version of it.   *)
(* The versions differ in how a series goes on after a step that completed *)
(* synchronously, so the version installed is part of the initial state.   *)
(***************************************************************************)
EXTENDS Integers, Sequences, FiniteSets, TLC

(* Number of nested levels of the subtree key serviceHttp in the input.    *)
MaxDepth == 1

(* Number of calls of get_type made in a row when it is the call under     *)
(* test.                                                                   *)
MaxCalls == 2

(* ---------------------------- JavaScript values ------------------------ *)
(* A value is a record with the same fields for every type, t being the    *)
(* result of typeof (null is tagged "null"); o lists the own enumerable    *)
(* properties of an object in enumeration order.                           *)
Num(k) == [t |-> "number", n |-> k, s |-> "", o |-> <<>>]
Str(x) == [t |-> "string", n |-> 0, s |-> x, o |-> <<>>]
Obj(entries) == [t |-> "object", n |-> 0, s |-> "", o |-> entries]
Null == [t |-> "null", n |-> 0, s |-> "", o |-> <<>>]
Undefined == [t |-> "undefined", n |-> 0, s |-> "", o |-> <<>>]
Entry(k, v) == [key |-> k, val |-> v]

(* !v of JavaScript *)
Falsy(v) ==
  \/ v.t \in {"null", "undefined"}
  \/ v.t = "number" /\ v.n = 0
  \/ v.t = "string" /\ v.s = ""

(* the string a value becomes when it is concatenated to a path *)
Segment(v) ==
  CASE v.t = "string" -> v.s
    [] v.t = "number" -> ToString(v.n)
    [] v.t = "null" -> "null"
    [] v.t = "undefined" -> "undefined"
    [] OTHER -> "[object Object]"

HasKey(entries, k) == \E i \in 1..Len(entries) : entries[i].key = k
ValueOf(entries, k) ==
  entries[CHOOSE i \in 1..Len(entries) : entries[i].key = k].val

(* obj[k]: undefined when obj has no property k *)
Prop(entries, k) == IF HasKey(entries, k) THEN ValueOf(entries, k) ELSE Undefined

(* absent errors, nodes and types *)
NoErr == "<none>"
NullType == "<null>"
NullNode == [isString |-> FALSE, path |-> <<>>]
StringNode(p) == [isString |-> TRUE, path |-> p]

(* ------------------------------- inputs -------------------------------- *)
Opt(k, vals) == {<<>>} \cup {<<Entry(k, v)>> : v \in vals}

(* objects given as the value of serviceHttp, nested at most d levels; the *)
(* ones directly under the root may carry a name of their own and the      *)
(* innermost ones a General key                                            *)
RECURSIVE SubObjects(_)
SubObjects(d) ==
  { mif \o sub \o nm :
      mif \in IF d = 0 THEN Opt("maxInFlight", {Num(2)}) ELSE {<<>>},
      sub \in IF d = 0 THEN {<<>>}
              ELSE Opt("serviceHttp", {Obj(o) : o \in SubObjects(d - 1)}),
      nm \in IF d = MaxDepth - 1 THEN Opt("name", {Str("h1")}) ELSE {<<>>} }

(* objects given to work and create_vip; the keys are listed out of phase  *)
(* order so that the enumeration order differs from the phase order        *)
RootObjects ==
  { adm \o bkl \o sub \o kat \o nm :
      adm \in Opt("adminStatus", {Num(0), Num(1), Num(2)}),
      bkl \in Opt("backlog", {Num(5), Num(0)}),
      sub \in IF MaxDepth = 0 THEN {<<>>}
              ELSE Opt("serviceHttp", {Obj(o) : o \in SubObjects(MaxDepth - 1)}),
      kat \in Opt("keepAliveTimeout", {Num(15)}),
      nm \in Opt("name", {Str("vip1"), Str("")}) }

(* the objects create_vip is tried on: those with at most one General key *)
VipObjects == {o \in RootObjects : ~HasKey(o, "keepAliveTimeout")}

(* the names get_type is tried on: those of its table and three others *)
KeyNames ==
  { "adminStatus", "backlog", "ipAddress", "isProxy", "keepAliveTimeout",
    "maxConnections", "maxEmbryonicConns", "maxHeaderSize", "maxInFlight",
    "serviceHttp", "serviceType", "name", "sslProfile", "unknownField" }

Inputs ==
  [entry : {"work"}, data : RootObjects]
    \cup [entry : {"create_vip"}, data : VipObjects]
    \cup [entry : {"connect", "get_type"}, data : {<<>>}]

BaseNode == <<"config", "app", "proxy", "virtualIP">>

(* ------------------------------ get_type ------------------------------- *)
(* get_type with every case of the switch falling to the default *)
get_typeDefaultOnly(key) == "string"
get_type(key) ==
  CASE key = "adminStatus" -> "uint32"
    [] key = "backlog" -> "uint32"
    [] key = "ipAddress" -> "socket-addr"
    [] key = "isProxy" -> "uint32"
    [] key = "keepAliveTimeout" -> "double"
    [] key = "maxConnections" -> "uint32"
    [] key = "maxEmbryonicConns" -> "uint32"
    [] key = "maxHeaderSize" -> "uint32"
    [] key = "maxInFlight" -> "uint32"
    [] key = "serviceHttp" -> "sub"
    [] key = "serviceType" -> "uint32"
    [] OTHER -> "string"

(* --------------------------- work: partition --------------------------- *)
(* Slot without the branch for the keys that contain a subtree *)
SlotNoSubtree(e) ==
  IF e.key = "name" THEN 0
  ELSE IF e.key = "adminStatus" THEN
    (IF e.val = Num(0) THEN 1 ELSE IF e.val = Num(1) THEN 4 ELSE -1)
  ELSE 2

(* index of the slot of tasks (0..4) an entry is pushed to, -1 for none *)
Slot(e) ==
  IF e.key = "name" THEN 0
  ELSE IF e.key = "adminStatus" THEN
    (IF e.val = Num(0) THEN 1 ELSE IF e.val = Num(1) THEN 4 ELSE -1)
  ELSE IF e.key \in {"serviceHttp"} THEN 3
  ELSE 2

RECURSIVE SelectSlot(_, _)
SelectSlot(entries, k) ==
  IF entries = <<>> THEN <<>>
  ELSE (IF Slot(Head(entries)) = k THEN <<Head(entries)>> ELSE <<>>)
         \o SelectSlot(Tail(entries), k)

(* tasks[k + 1] is slot k of the source's tasks array *)
Partition(entries) == [k \in 1..5 |-> SelectSlot(entries, k - 1)]

(* ------------------------------- state --------------------------------- *)
VARIABLES
  input,    \* the call under test: [entry, data]
  called,   \* whether that call has been made
  inv,      \* the invocations of work, by nesting depth (1 is the caller's)
  puts,     \* every call of put made by work, in call order, with its fate
            \* (state: sent, ok, failed, rejected before sending, threw) and
            \* at, the number of calls of put made when its callback ran
  gets,     \* every call of get made by create_vip, with its fate
  imm,      \* the setImmediate queue: invocations whose series resumes
  lib,      \* the version of the async library that is installed
  userCb,   \* the calls of the caller's callback, in order
  crashed,  \* an exception left a callback of the event loop uncaught
  posts,    \* every login request made by connect, with its fate
  typed     \* the calls of get_type made by the caller: [key, type]

vars ==
  <<input, called, inv, puts, gets, imm, lib, userCb, crashed, posts, typed>>

Depths == 1..(MaxDepth + 1)

(* The series of the async library, by version:                            *)
(*   "1.x"   after a step that completed synchronously the next step is    *)
(*           queued with setImmediate;                                     *)
(*   "2.0"   (2.0 to 2.5) the step callback always runs the next step      *)
(*           itself, also while the iterator is still running;             *)
(*   "2.6"   (2.6 and later, 3.x) after a step that completed              *)
(*           synchronously the loop that called the iterator goes on with  *)
(*           the next step once the iterator has returned.                 *)
AsyncVersions == {"1.x", "2.0", "2.6"}

Idle ==
  [active |-> FALSE, base |-> <<>>, obj |-> Null, node |-> <<>>,
   tasks |-> [k \in 1..5 |-> <<>>], key |-> 0,
   phase |-> 0, pending |-> 0, fired |-> FALSE, cbCalls |-> 0, cbErr |-> NoErr,
   cbAt |-> 0]

(* The part of the state the synchronous code of work reads and writes.    *)
Machine ==
  [inv |-> inv, puts |-> puts, imm |-> imm, lib |-> lib, userCb |-> userCb,
   crashed |-> crashed, entry |-> input.entry]

(* ------------------------------- put ----------------------------------- *)
(* check_node *)
check_node(node) == node.isString

(* PutReject with put's checks of node and data left out *)
PutRejectNothing(node, data) == NoErr

(* the error put passes to its callback before sending anything, if any *)
PutReject(node, data) ==
  IF ~check_node(node) THEN "'node' must be a string"
  ELSE IF Falsy(data) THEN "missing data"
  ELSE NoErr

(* opts.type = opts.type || 'string' *)
WireType(type) == IF type = NullType THEN "string" ELSE type

(* check_response: the status codes STATUS_CODES lists as ok *)
OkCodes(method) ==
  CASE method = "DELETE" -> {204}
    [] method = "GET" -> {200}
    [] method = "PUT" -> {200}
    [] method = "POST" -> {200}
check_response(method, status) == status \in OkCodes(method)

StatusCodes == {200, 401, 404, 500}

(* --------------------- work: the callbacks of a phase ------------------ *)
(* work drives its slots with the async library, which the repository      *)
(* requires and does not contain.  What the model takes from it:           *)
(*  - forEachOfSeries hands the iterator the numeric index of the slot     *)
(*    (work compares it with 0 and 3), runs one slot at a time and stops   *)
(*    at the first error passed to the step callback; a step that          *)
(*    completed after the iterator returned is followed by the next one    *)
(*    from within its callback, one that completed synchronously as the    *)
(*    version has it (AsyncVersions); the final callback is called when no *)
(*    slot is left;                                                        *)
(*  - each starts every task of the slot in order, calls its callback once *)
(*    (at the first error, or when every task has called back; at once for *)
(*    an empty slot) and ignores what tasks report afterwards;             *)
(*  - a task callback called a second time throws.                         *)
(* what the completion callback of a phase passes to the series: the       *)
(* error is logged and callback() is called without it                     *)
PhaseResult(err) == NoErr

(* what the final callback of the series passes to cb: cb() *)
FinalResult(err) == NoErr

(* the callback work gives to its recursive call: on an error it calls     *)
(* cb_each a second time (put has already rejected the null node), which   *)
(* async's only_once answers by throwing                                   *)
SubtreeCb(m, err) ==
  IF err # NoErr THEN [m EXCEPT !.crashed = TRUE] ELSE m

(* the callbacks of create_vip's second step and of its series *)
VipWorkCb(m, err) ==
  IF err # NoErr THEN m
  ELSE [m EXCEPT !.userCb = Append(@, [err |-> NoErr, msg |-> "vip created"])]

(* cb of invocation d is called with err *)
WorkCb(m, d, err) ==
  LET m1 == [m EXCEPT !.inv[d].cbCalls = @ + 1, !.inv[d].cbErr = err,
                      !.inv[d].cbAt = Len(m.puts)]
  IN IF d > 1 THEN SubtreeCb(m1, err)
     ELSE IF m.entry = "create_vip" THEN VipWorkCb(m1, err)
     ELSE [m1 EXCEPT !.userCb = Append(@, [err |-> err, msg |-> "<none>"])]

RECURSIVE Iterate(_, _)
RECURSIVE Replenish(_, _)

(* async.forEachOfSeries: the callback of the step for slot k.  Called     *)
(* while the iterator is still running (sync), 1.x queues the next step    *)
(* with setImmediate unless no slot is left, 2.0 runs it at once and 2.6   *)
(* leaves it to the loop that called the iterator; called later, every     *)
(* version runs the next step at once.                                     *)
SeriesStep(m, d, k, err, sync) ==
  IF err # NoErr THEN WorkCb(m, d, FinalResult(err))
  ELSE LET m1 == [m EXCEPT !.inv[d].key = k + 1]
       IN IF m.lib = "1.x" /\ sync /\ k < 4
            THEN [m1 EXCEPT !.imm = Append(@, d)]
          ELSE IF m.lib = "2.6" /\ sync THEN m1
          ELSE Replenish(m1, d)

PhaseCallback(m, d, k, err, sync) ==
  SeriesStep(m, d, k, PhaseResult(err), sync)

(* EachDone with an each that calls back only when every task has called   *)
(* back without an error                                                   *)
EachDoneErrSilent(m, d, k, err, sync) ==
  LET iv == m.inv[d]
  IN IF iv.phase # k \/ iv.fired THEN m
     ELSE IF err = NoErr /\ iv.pending = 0
       THEN PhaseCallback([m EXCEPT !.inv[d].fired = TRUE], d, k, err, sync)
     ELSE m

(* async.each: one task of slot k called cb_each(err); the callback of the *)
(* phase is called once, at the first error or when no task is pending     *)
EachDone(m, d, k, err, sync) ==
  LET iv == m.inv[d]
  IN IF iv.phase # k \/ iv.fired THEN m
     ELSE IF err # NoErr \/ iv.pending = 0
       THEN PhaseCallback([m EXCEPT !.inv[d].fired = TRUE], d, k, err, sync)
     ELSE m

(* CallPut with cb_each() called right after put instead of from put's     *)
(* callback: the phase does not wait for the answer                        *)
CallPutNoWait(m, d, k, leaf, node, data, type) ==
  LET rej == PutReject(node, data)
      rec == [inv |-> d, phase |-> k, leaf |-> leaf, node |-> node,
              data |-> data, type |-> type, wire |-> WireType(type),
              state |-> IF rej = NoErr THEN "sent" ELSE "rejected",
              err |-> rej,
              at |-> IF rej = NoErr THEN 0 ELSE Len(m.puts) + 1]
  IN EachDone([m EXCEPT !.puts = Append(@, rec)], d, k, rej, TRUE)

(* self.put(node, value, cb) called by a task of slot k *)
CallPut(m, d, k, leaf, node, data, type) ==
  LET rej == PutReject(node, data)
      rec == [inv |-> d, phase |-> k, leaf |-> leaf, node |-> node,
              data |-> data, type |-> type, wire |-> WireType(type),
              state |-> IF rej = NoErr THEN "sent" ELSE "rejected",
              err |-> rej,
              at |-> IF rej = NoErr THEN 0 ELSE Len(m.puts) + 1]
      m1 == [m EXCEPT !.puts = Append(@, rec)]
  IN IF rej # NoErr THEN EachDone(m1, d, k, rej, TRUE)
     ELSE IF m.inv[d].phase = k THEN [m1 EXCEPT !.inv[d].pending = @ + 1]
     ELSE m1

RECURSIVE StartWork(_, _, _, _)

(* Task with the name task writing to node/name without assigning node *)
TaskNoExtend(m, d, k, item) ==
  LET leaf == item.key
      node == m.inv[d].node
  IN IF k = 3 THEN
       CallPut(StartWork(m, d + 1, node \o <<leaf>>, item.val), d, k, leaf,
               NullNode, Null, NullType)
     ELSE
       CallPut(m, d, k, leaf,
               StringNode(node \o <<IF leaf = "name" THEN Segment(item.val)
                                     ELSE leaf>>),
               item.val, get_type(leaf))

(* Task with node shared by the invocations instead of being a parameter  *)
(* of each: the name task of a recursive invocation also moves the node of *)
(* the invocations that enclose it                                         *)
TaskSharedNode(m, d, k, item) ==
  LET leaf == item.key
      node == m.inv[d].node
  IN IF k = 0 /\ leaf = "name" THEN
       LET named == node \o <<Segment(item.val)>>
       IN CallPut([m EXCEPT !.inv = [e \in Depths |->
                     IF e <= d /\ m.inv[e].active
                       THEN [m.inv[e] EXCEPT !.node = named]
                       ELSE m.inv[e]]],
                  d, k, leaf, StringNode(named), item.val, get_type("name"))
     ELSE IF k = 3 THEN
       CallPut(StartWork(m, d + 1, node \o <<leaf>>, item.val), d, k, leaf,
               NullNode, Null, NullType)
     ELSE
       CallPut(m, d, k, leaf, StringNode(node \o <<leaf>>), item.val,
               get_type(leaf))

(* the body of a task: item of slot k of invocation d *)
Task(m, d, k, item) ==
  LET leaf == item.key
      node == m.inv[d].node
  IN IF k = 0 /\ leaf = "name" THEN
       LET named == node \o <<Segment(item.val)>>
       IN CallPut([m EXCEPT !.inv[d].node = named], d, k, leaf,
                  StringNode(named), item.val, get_type("name"))
     ELSE IF k = 3 THEN
       CallPut(StartWork(m, d + 1, node \o <<leaf>>, item.val), d, k, leaf,
               NullNode, Null, NullType)
     ELSE
       CallPut(m, d, k, leaf, StringNode(node \o <<leaf>>), item.val,
               get_type(leaf))

RECURSIVE Dispatch(_, _, _, _)
Dispatch(m, d, k, items) ==
  IF items = <<>> THEN m
  ELSE Dispatch(Task(m, d, k, Head(items)), d, k, Tail(items))

(* Iterate with an each that calls back only from a task: a slot without   *)
(* tasks never completes                                                   *)
IterateEmptyBlocks(m, d) ==
  LET k == m.inv[d].key
      m0 == [m EXCEPT !.inv[d].phase = k, !.inv[d].pending = 0,
                      !.inv[d].fired = FALSE]
  IN Dispatch(m0, d, k, m0.inv[d].tasks[k + 1])

(* one step of the series: async.each over slot key of invocation d *)
Iterate(m, d) ==
  LET k == m.inv[d].key
      m0 == [m EXCEPT !.inv[d].phase = k, !.inv[d].pending = 0,
                      !.inv[d].fired = FALSE]
      m1 == Dispatch(m0, d, k, m0.inv[d].tasks[k + 1])
  IN IF m1.inv[d].phase = k /\ m1.inv[d].pending = 0
       THEN EachDone(m1, d, k, NoErr, TRUE)
       ELSE m1

(* async.forEachOfSeries: the series of invocation d goes on from slot     *)
(* key; the final callback is called when no slot is left.  In 2.6 this is *)
(* a loop that goes on while each step completes before the iterator       *)
(* returns; in 1.x and 2.0 the step callback has already seen to the next  *)
(* step.                                                                   *)
Replenish(m, d) ==
  LET k == m.inv[d].key
  IN IF k = 5 THEN WorkCb(m, d, FinalResult(NoErr))
     ELSE LET m1 == Iterate(m, d)
          IN IF m.lib = "2.6" /\ ~m1.crashed /\ m1.inv[d].key = k + 1
               THEN Replenish(m1, d) ELSE m1

(* work(node, obj, cb) as invocation d *)
StartWork(m, d, node, obj) ==
  Replenish([m EXCEPT !.inv[d] =
             [Idle EXCEPT !.active = TRUE, !.base = node, !.obj = obj,
                          !.node = node, !.tasks = Partition(obj.o)]], d)

Set(m) ==
  /\ inv' = m.inv
  /\ puts' = m.puts
  /\ imm' = m.imm
  /\ userCb' = m.userCb
  /\ crashed' = m.crashed

(* ------------------------------ get, create_vip ------------------------ *)
(* The bodies an answer to the read of a virtual IP carries: the list of   *)
(* the body's properties, each an object with an httpResponseCode.         *)
GetBodies ==
  { <<[httpResponseCode |-> 200]>>, <<[httpResponseCode |-> 404]>> }

(* msg of get's callback: undefined (not present) or an object *)
NoMsg == [present |-> FALSE, httpResponseCode |-> 0]

(* format_response_get: the value of the first property of the body *)
format_response_get(body) ==
  IF body = <<>> THEN NoMsg
  ELSE [present |-> TRUE, httpResponseCode |-> body[1].httpResponseCode]

(* what get passes to its callback for an answer *)
GetErr(status) ==
  IF check_response("GET", status) THEN NoErr
  ELSE "Response contained an error code"
GetMsg(status, body) ==
  IF check_response("GET", status) THEN format_response_get(body) ELSE NoMsg

(* VipNameMissing with the test left out *)
VipNameNeverMissing(data) == FALSE

(* create_vip's test of its argument: !data.name *)
VipNameMissing(data) == Falsy(Prop(data, "name"))

(* create_vip's test of the answer: msg && msg.httpResponseCode !== 404 *)
VipExists(msg) == msg.present /\ msg.httpResponseCode # 404

(* -------------------------------- connect ------------------------------ *)
(* the Location header of an answer to the login request: <<origin, path>> *)
Locations ==
  { <<"", "/login">>, <<"https://127.0.0.1:8443", "/login">>, <<"", "/">> }
LoginStatusCodes == {200, 302, 401}

(* url.parse(location).pathname *)
Pathname(location) == location[2]

(* the arguments connect passes to its callback for an answer: an answer   *)
(* that is not a 302 is reported with callback(error), error being null    *)
ConnectResult(status, location) ==
  IF status # 302 THEN [err |-> NoErr, msg |-> "<none>"]
  ELSE IF Pathname(location) = "/login"
    THEN [err |-> "Login failed", msg |-> "<none>"]
  ELSE [err |-> NoErr, msg |-> "connected"]

(* ------------------------------- actions ------------------------------- *)
Init ==
  /\ input \in Inputs
  /\ called = FALSE
  /\ inv = [d \in Depths |-> Idle]
  /\ puts = <<>>
  /\ gets = <<>>
  /\ imm = <<>>
  /\ lib \in AsyncVersions
  /\ userCb = <<>>
  /\ crashed = FALSE
  /\ posts = <<>>
  /\ typed = <<>>

(* the caller calls work(node, obj, cb) *)
CallWork ==
  /\ ~called
  /\ input.entry = "work"
  /\ called' = TRUE
  /\ Set(StartWork(Machine, 1, BaseNode, Obj(input.data)))
  /\ UNCHANGED <<input, gets, lib, posts, typed>>

(* the caller calls create_vip(data, callback) *)
CallCreateVip ==
  /\ ~called
  /\ input.entry = "create_vip"
  /\ called' = TRUE
  /\ IF VipNameMissing(input.data)
       THEN /\ userCb' = Append(userCb, [err |-> "VIP name required",
                                          msg |-> "<none>"])
            /\ gets' = gets
       ELSE /\ gets' = Append(gets,
                 [node |-> BaseNode \o <<Segment(Prop(input.data, "name"))>>,
                  state |-> "sent", status |-> 0, err |-> NoErr,
                  msg |-> NoMsg])
            /\ userCb' = userCb
  /\ UNCHANGED <<input, inv, puts, imm, lib, crashed, posts, typed>>

(* the event loop runs the oldest setImmediate callback: the series of the *)
(* invocation that queued it goes on with its next slot                    *)
RunImmediate ==
  /\ ~crashed
  /\ imm # <<>>
  /\ Set(Iterate([Machine EXCEPT !.imm = Tail(imm)], Head(imm)))
  /\ UNCHANGED <<input, called, gets, lib, posts, typed>>

(* PutAnswered with a write that failed submitted again: the same call of  *)
(* put is appended as a new request and the task stays pending             *)
PutAnsweredRetry(m, i, status) ==
  LET ok == check_response("PUT", status)
      d == m.puts[i].inv
      k == m.puts[i].phase
      m0 == [m EXCEPT !.puts[i].state = "ok", !.puts[i].err = NoErr,
                      !.puts[i].at = Len(m.puts)]
      m1 == IF m0.inv[d].phase = k
              THEN [m0 EXCEPT !.inv[d].pending = @ - 1] ELSE m0
  IN IF ok THEN EachDone(m1, d, k, NoErr, FALSE)
     ELSE [m EXCEPT !.puts =
             Append([@ EXCEPT ![i].state = "failed",
                              ![i].err = "Response contained an error code",
                              ![i].at = Len(m.puts)],
                    m.puts[i])]

(* the callback put gives to request.put, run for an answer with status *)
PutAnswered(m, i, status) ==
  LET ok == check_response("PUT", status)
      err == IF ok THEN NoErr ELSE "Response contained an error code"
      d == m.puts[i].inv
      k == m.puts[i].phase
      m0 == [m EXCEPT
               !.puts[i].state = IF ok THEN "ok" ELSE "failed",
               !.puts[i].err = err,
               !.puts[i].at = Len(m.puts)]
      m1 == IF m0.inv[d].phase = k
              THEN [m0 EXCEPT !.inv[d].pending = @ - 1] ELSE m0
  IN EachDone(m1, d, k, err, FALSE)

(* the answer to the PUT request of puts[i] arrives with an HTTP status *)
PutResponse(i, status) ==
  /\ ~crashed
  /\ puts[i].state = "sent"
  /\ Set(PutAnswered(Machine, i, status))
  /\ UNCHANGED <<input, called, gets, lib, posts, typed>>

(* the PUT request of puts[i] ends without an answer: the callback throws *)
PutError(i) ==
  /\ ~crashed
  /\ puts[i].state = "sent"
  /\ puts' = [puts EXCEPT ![i].state = "threw"]
  /\ crashed' = TRUE
  /\ UNCHANGED <<input, called, inv, gets, imm, lib, userCb, posts, typed>>

(* the answer to create_vip's read arrives *)
GetResponse(status, body) ==
  /\ ~crashed
  /\ gets # <<>> /\ gets[1].state = "sent"
  /\ LET err == GetErr(status)
         msg == GetMsg(status, body)
     IN /\ gets' = [gets EXCEPT
                       ![1].state = IF err = NoErr THEN "ok" ELSE "failed",
                       ![1].status = status, ![1].err = err, ![1].msg = msg]
        /\ IF VipExists(msg)
             THEN UNCHANGED <<inv, puts, imm, userCb, crashed>>
             ELSE Set(StartWork(Machine, 1, BaseNode, Obj(input.data)))
  /\ UNCHANGED <<input, called, lib, posts, typed>>

(* create_vip's read ends without an answer: the callback throws *)
GetError ==
  /\ ~crashed
  /\ gets # <<>> /\ gets[1].state = "sent"
  /\ gets' = [gets EXCEPT ![1].state = "threw"]
  /\ crashed' = TRUE
  /\ UNCHANGED <<input, called, inv, puts, imm, lib, userCb, posts, typed>>

(* the caller calls connect(opts, callback) *)
CallConnect ==
  /\ ~called
  /\ input.entry = "connect"
  /\ called' = TRUE
  /\ posts' = Append(posts, [state |-> "sent", status |-> 0,
                             location |-> <<"", "">>])
  /\ UNCHANGED <<input, inv, puts, gets, imm, lib, userCb, crashed, typed>>

(* the answer to the login request arrives *)
ConnectResponse(status, location) ==
  /\ ~crashed
  /\ posts # <<>> /\ posts[1].state = "sent"
  /\ posts' = [posts EXCEPT ![1].state = "answered", ![1].status = status,
                            ![1].location = location]
  /\ userCb' = Append(userCb, ConnectResult(status, location))
  /\ UNCHANGED <<input, called, inv, puts, gets, imm, lib, crashed, typed>>

(* the login request ends without an answer: callback(error) *)
ConnectError ==
  /\ ~crashed
  /\ posts # <<>> /\ posts[1].state = "sent"
  /\ posts' = [posts EXCEPT ![1].state = "error"]
  /\ userCb' = Append(userCb, [err |-> "request error", msg |-> "<none>"])
  /\ UNCHANGED <<input, called, inv, puts, gets, imm, lib, crashed, typed>>

(* the caller calls get_type(key) *)
CallGetType(key) ==
  /\ input.entry = "get_type"
  /\ Len(typed) < MaxCalls
  /\ typed' = Append(typed, [key |-> key, type |-> get_type(key)])
  /\ UNCHANGED <<input, called, inv, puts, gets, imm, lib, userCb, crashed, posts>>

Next ==
  \/ CallWork
  \/ CallCreateVip
  \/ RunImmediate
  \/ \E i \in 1..Len(puts), status \in StatusCodes : PutResponse(i, status)
  \/ \E i \in 1..Len(puts) : PutError(i)
  \/ \E status \in StatusCodes, body \in GetBodies : GetResponse(status, body)
  \/ GetError
  \/ CallConnect
  \/ \E status \in LoginStatusCodes, location \in Locations :
       ConnectResponse(status, location)
  \/ ConnectError
  \/ \E key \in KeyNames : CallGetType(key)

Spec == Init /\ [][Next]_vars

(* ------------------------------ properties ----------------------------- *)
(* A write is issued when work calls put; it reaches the transport unless  *)
(* put rejects it before sending; it is resolved when put has called its   *)
(* callback.  puts[i].at < j says write i was resolved before write j was  *)
(* issued.                                                                 *)
PutIds == 1..Len(puts)
Resolved(i) == puts[i].state \in {"ok", "failed", "rejected"}
Sent(i) == puts[i].state # "rejected"
ResolvedBefore(i, j) == Resolved(i) /\ puts[i].at < j

(* the path the claims call childPath, computed from the arguments of the  *)
(* invocation                                                              *)
NamePath(d) ==
  inv[d].base \o <<Segment(ValueOf(inv[d].obj.o, "name"))>>
ChildPath(d) ==
  IF HasKey(inv[d].obj.o, "name") THEN NamePath(d) ELSE inv[d].base

(* C1: phase barrier - in one invocation no write of a later phase reaches *)
(* the transport unless every write of the earlier phases was resolved     *)
(* before it was issued.                                                   *)
C1_PhaseBarrier ==
  \A i, j \in PutIds :
    (puts[i].inv = puts[j].inv /\ puts[i].phase < puts[j].phase /\ Sent(j))
      => ResolvedBefore(i, j)

(* C2: subtree before enable - when the Enable write of an invocation that *)
(* has a subtree field reaches the transport, every write of the recursive *)
(* invocation was issued and resolved before it.                           *)
C2_SubtreeBeforeEnable ==
  \A j \in PutIds :
    (puts[j].phase = 4 /\ Sent(j) /\ inv[puts[j].inv].tasks[4] # <<>>)
      => \A i \in PutIds :
           puts[i].inv = puts[j].inv + 1 => (i < j /\ ResolvedBefore(i, j))

(* C3: failure halts progression - once a write of an invocation has been  *)
(* answered with a failure, no write of a later phase of that invocation   *)
(* reaches the transport.                                                  *)
C3_FailureHalts ==
  \A i, j \in PutIds :
    (puts[i].inv = puts[j].inv /\ puts[i].state = "failed"
       /\ puts[i].phase < puts[j].phase /\ Sent(j))
      => j <= puts[i].at

(* C4: failure is reported - the completion callback of an invocation one  *)
(* of whose writes failed receives a non-null error.                       *)
C4_FailureReported ==
  \A d \in Depths :
    (inv[d].cbCalls > 0
       /\ \E i \in PutIds : puts[i].inv = d /\ puts[i].state = "failed")
      => inv[d].cbErr # NoErr

(* C5: naming first - in an invocation whose obj has a name, every write   *)
(* of a later phase is issued after the write of the name to base/name was *)
(* issued and resolved.                                                    *)
C5_NamingFirst ==
  \A j \in PutIds :
    LET d == puts[j].inv
    IN (HasKey(inv[d].obj.o, "name") /\ puts[j].phase > 0)
         => \E i \in PutIds :
              /\ puts[i].inv = d /\ puts[i].phase = 0
              /\ puts[i].leaf = "name"
              /\ puts[i].node = StringNode(NamePath(d))
              /\ ResolvedBefore(i, j)

(* a named invocation whose name was written and answered and which has    *)
(* since sent a write of a later phase                                     *)
C5_Witness ==
  \E i, j \in PutIds :
    /\ puts[i].inv = puts[j].inv /\ puts[i].phase = 0 /\ puts[i].state = "ok"
    /\ puts[j].phase > 0 /\ Sent(j)

(* C6: path extension - the name write targets base/name, the write of     *)
(* every other scalar field f targets childPath/f, and the recursive       *)
(* invocation for serviceHttp is made on childPath/serviceHttp.            *)
C6_PathExtension ==
  /\ \A i \in PutIds :
       LET d == puts[i].inv
       IN /\ puts[i].leaf = "name" => puts[i].node = StringNode(NamePath(d))
          /\ puts[i].leaf \notin {"name", "serviceHttp"}
               => puts[i].node = StringNode(ChildPath(d) \o <<puts[i].leaf>>)
  /\ \A d \in Depths :
       (d > 1 /\ inv[d].active)
         => inv[d].base = ChildPath(d - 1) \o <<"serviceHttp">>

(* a named invocation has written a scalar field and started its recursive *)
(* invocation                                                              *)
C6_Witness ==
  \E i \in PutIds :
    /\ puts[i].inv = 1 /\ HasKey(inv[1].obj.o, "name")
    /\ puts[i].leaf \notin {"name", "serviceHttp"} /\ Sent(i)
    /\ inv[2].active

(* the value obj holds for the field of write i *)
FieldValue(i) == ValueOf(inv[puts[i].inv].obj.o, puts[i].leaf)

(* C7: every scalar write of the Disable, General and Enable phases is     *)
(* sent as an HTTP PUT carrying the field's value and type get_type(f); it *)
(* is not rejected before a request is sent.                               *)
C7_ReachesTransport ==
  \A i \in PutIds :
    puts[i].phase \in {1, 2, 4}
      => /\ puts[i].state # "rejected"
         /\ puts[i].data = FieldValue(i)
         /\ puts[i].wire = get_type(puts[i].leaf)

(* the phase the claim assigns to a field *)
ClaimedSlot(e) ==
  CASE e.key = "name" -> 0
    [] e.key = "adminStatus" /\ e.val = Num(0) -> 1
    [] e.key = "adminStatus" /\ e.val = Num(1) -> 4
    [] e.key = "serviceHttp" -> 3
    [] OTHER -> 2

(* C8: the partition is total - every field of obj is in exactly one slot  *)
(* of tasks, the one the claim names.                                      *)
C8_PartitionTotal ==
  \A d \in Depths :
    inv[d].active =>
      \A n \in 1..Len(inv[d].obj.o) :
        LET e == inv[d].obj.o[n]
            places == {<<k, p>> \in (1..5) \X (1..Len(inv[d].obj.o)) :
                         /\ p <= Len(inv[d].tasks[k])
                         /\ inv[d].tasks[k][p] = e}
        IN /\ Cardinality(places) = 1
           /\ \A pl \in places : pl[1] = ClaimedSlot(e) + 1

(* the read of create_vip was answered 200 with an object that is not a    *)
(* "not found"                                                             *)
ReadFound ==
  /\ gets # <<>> /\ gets[1].state = "ok"
  /\ gets[1].msg.present /\ gets[1].msg.httpResponseCode # 404

(* the read of create_vip ended in "not found" *)
ReadNotFound ==
  /\ gets # <<>>
  /\ \/ gets[1].state = "failed" /\ gets[1].status = 404
     \/ /\ gets[1].state = "ok" /\ gets[1].msg.present
        /\ gets[1].msg.httpResponseCode = 404

(* C9: create_vip on a name that exists calls the caller's callback with   *)
(* an error and issues no write.                                           *)
C9_ExistsReported ==
  (input.entry = "create_vip" /\ ReadFound)
    => /\ Len(userCb) = 1 /\ userCb[1].err # NoErr
       /\ puts = <<>>

(* C10: create_vip invokes work only after a read that ended in "not       *)
(* found".                                                                 *)
C10_WorkOnlyOnAbsence ==
  (input.entry = "create_vip" /\ (inv[1].active \/ puts # <<>>))
    => ReadNotFound
(* C11: create_vip, having found the name absent, reports 'vip created'    *)
(* only if no write issued by the underlying work invocation, its          *)
(* recursive invocations included, was answered with a failure.            *)
C11_CreatedOnlyOnSuccess ==
  (input.entry = "create_vip" /\ ReadNotFound
     /\ \E c \in 1..Len(userCb) : userCb[c].msg = "vip created")
    => \A i \in PutIds : puts[i].state # "failed"
(* C12: create_vip called with data that has no name calls the callback    *)
(* once, with the validation error, and issues no read and no write.       *)
C12_NameRequired ==
  (input.entry = "create_vip" /\ called /\ ~HasKey(input.data, "name"))
    => /\ userCb = <<[err |-> "VIP name required", msg |-> "<none>"]>>
       /\ gets = <<>> /\ puts = <<>>
       /\ \A d \in Depths : ~inv[d].active

(* create_vip has been called with an object that has fields but no name *)
C12_Witness ==
  /\ input.entry = "create_vip" /\ called
  /\ ~HasKey(input.data, "name") /\ input.data # <<>>
  /\ Len(userCb) = 1
(* the object of the recursion example: {name: n, serviceHttp:             *)
(* {maxInFlight: k}} with n = 'vip1' and k = 2                             *)
RecursionObj ==
  <<Entry("serviceHttp", Obj(<<Entry("maxInFlight", Num(2))>>)),
    Entry("name", Str("vip1"))>>

(* no write has been answered with a failure or left without an answer *)
TransportSucceeds == \A i \in PutIds : puts[i].state \notin {"failed", "threw"}

(* nothing is left to run: no setImmediate callback and no request *)
Quiescent ==
  /\ called /\ imm = <<>>
  /\ \A i \in PutIds : puts[i].state # "sent"
  /\ \A g \in 1..Len(gets) : gets[g].state # "sent"
  /\ \A p \in 1..Len(posts) : posts[p].state # "sent"

(* C13: recursion - work(base, {name: n, serviceHttp: {maxInFlight: k}})   *)
(* on a transport that succeeds sends the name write to base/n first and,  *)
(* after it was answered, the recursive invocation sends a write to        *)
(* base/n/serviceHttp/maxInFlight with data k and type uint32; no other    *)
(* write reaches the transport.                                            *)
C13_Recursion ==
  (input.entry = "work" /\ input.data = RecursionObj /\ TransportSucceeds)
    => LET sent == {i \in PutIds : Sent(i)}
           nameW == {i \in sent :
                       /\ puts[i].inv = 1 /\ puts[i].leaf = "name"
                       /\ puts[i].node = StringNode(BaseNode \o <<"vip1">>)}
           subW == {i \in sent :
                      /\ puts[i].inv = 2
                      /\ puts[i].node =
                           StringNode(BaseNode \o
                                        <<"vip1", "serviceHttp", "maxInFlight">>)
                      /\ puts[i].data = Num(2)
                      /\ puts[i].wire = "uint32"}
       IN /\ sent = nameW \cup subW
          /\ Cardinality(nameW) <= 1 /\ Cardinality(subW) <= 1
          /\ \A i \in nameW, j \in subW : ResolvedBefore(i, j)
          /\ inv[2].active => inv[2].base = BaseNode \o <<"vip1", "serviceHttp">>
          /\ Quiescent => Cardinality(nameW) = 1 /\ Cardinality(subW) = 1

(* the example has run to its end and both writes were answered 200 *)
C13_Witness ==
  /\ input.entry = "work" /\ input.data = RecursionObj /\ Quiescent
  /\ \E i, j \in PutIds :
       /\ puts[i].leaf = "name" /\ puts[i].state = "ok"
       /\ puts[j].leaf = "maxInFlight" /\ puts[j].state = "ok"
(* the sequence of (path, type) pairs of a sequence of calls of put *)
WriteSeq(ps) == [i \in 1..Len(ps) |-> <<ps[i].node, ps[i].type>>]
IsPrefix(a, b) ==
  Len(a) <= Len(b) /\ \A i \in 1..Len(a) : a[i] = b[i]

(* One run of work on the input, under the schedule that runs every        *)
(* pending setImmediate callback first and then answers the oldest request *)
(* with 200.                                                               *)
RECURSIVE RunToEnd(_)
RunToEnd(m) ==
  IF m.imm # <<>>
    THEN RunToEnd(Iterate([m EXCEPT !.imm = Tail(@)], Head(m.imm)))
  ELSE LET pend == {i \in 1..Len(m.puts) : m.puts[i].state = "sent"}
       IN IF pend = {} THEN m
          ELSE RunToEnd(PutAnswered(m,
                          CHOOSE i \in pend : \A j \in pend : i <= j, 200))
ReferenceRun ==
  RunToEnd(StartWork([inv |-> [d \in Depths |-> Idle], puts |-> <<>>,
                      imm |-> <<>>, lib |-> lib, userCb |-> <<>>,
                      crashed |-> FALSE,
                      entry |-> input.entry],
                     1, BaseNode, Obj(input.data)))

(* C14: determinism - against a transport that always succeeds, every run  *)
(* of work on the same node and obj issues the same sequence of (path,     *)
(* type) pairs as the reference run, in whatever order the answers arrive. *)
C14_Deterministic ==
  (input.entry = "work" /\ called /\ TransportSucceeds)
    => /\ IsPrefix(WriteSeq(puts), WriteSeq(ReferenceRun.puts))
       /\ Quiescent => WriteSeq(puts) = WriteSeq(ReferenceRun.puts)

(* a run on an object with a subtree field and adminStatus in which a      *)
(* later write was answered while an earlier one is still unanswered       *)
C14_Witness ==
  /\ input.entry = "work" /\ TransportSucceeds
  /\ HasKey(input.data, "serviceHttp") /\ HasKey(input.data, "adminStatus")
  /\ \E i, j \in PutIds :
       i < j /\ puts[i].state = "sent" /\ puts[j].state = "ok"
(* the table of types by field name, as sets of names *)
Uint32Names ==
  {"adminStatus", "backlog", "isProxy", "maxConnections",
   "maxEmbryonicConns", "maxHeaderSize", "maxInFlight", "serviceType"}
TableType(key) ==
  IF key \in Uint32Names THEN "uint32"
  ELSE IF key = "keepAliveTimeout" THEN "double"
  ELSE IF key = "ipAddress" THEN "socket-addr"
  ELSE IF key = "serviceHttp" THEN "sub"
  ELSE "string"

(* C15: get_type is total and pure - every call returns the type the table *)
(* gives for the field name, string for "name" and for unknown names, and  *)
(* two calls with the same name return the same type.                      *)
C15_TypeTable ==
  \A c \in 1..Len(typed) :
    /\ typed[c].type = TableType(typed[c].key)
    /\ typed[c].type \in {"uint32", "double", "socket-addr", "sub", "string"}
    /\ \A e \in 1..Len(typed) :
         typed[e].key = typed[c].key => typed[e].type = typed[c].type

(* get_type was called with a table name and with an unknown name *)
C15_Witness ==
  /\ Len(typed) = MaxCalls
  /\ \E c \in 1..Len(typed) : typed[c].key = "keepAliveTimeout"
  /\ \E c \in 1..Len(typed) : typed[c].key = "unknownField"
(* C16: transport failures are ordinary failures - no request of get or    *)
(* put that ended in a network error raised an exception; each one had its *)
(* caller's callback invoked with a non-null error.                        *)
C16_TransportErrorDelivered ==
  /\ ~crashed
  /\ \A i \in PutIds : puts[i].state # "threw"
  /\ \A g \in 1..Len(gets) : gets[g].state # "threw"

(* the login request ended with a successful login *)
LoginSucceeded ==
  /\ posts[1].state = "answered" /\ posts[1].status = 302
  /\ Pathname(posts[1].location) # "/login"

(* C17: connect invokes its callback exactly once - with a null error and  *)
(* 'connected' when the login succeeded, with a non-null error otherwise   *)
(* (request error, status other than 302, redirect back to /login).        *)
C17_ConnectCallback ==
  (input.entry = "connect" /\ posts # <<>>)
    => IF posts[1].state = "sent" THEN userCb = <<>>
       ELSE /\ Len(userCb) = 1
            /\ IF LoginSucceeded
                 THEN userCb[1] = [err |-> NoErr, msg |-> "connected"]
                 ELSE userCb[1].err # NoErr

(* C18: quiescence at completion - once the completion callback of an      *)
(* invocation of work was invoked, every write of that invocation and of   *)
(* its recursive invocations has resolved and was issued before the call.  *)
C18_QuiescentAtCompletion ==
  \A d \in Depths :
    inv[d].cbCalls > 0
      => \A i \in PutIds :
           puts[i].inv >= d => (i <= inv[d].cbAt /\ puts[i].state # "sent")

(* C19: every call work makes to put carries a string node and a non-null  *)
(* type, in every phase.                                                   *)
C19_WellFormedPut ==
  \A i \in PutIds : check_node(puts[i].node) /\ puts[i].type # NullType
(* ------------- work against a transport that always answers ------------ *)
(* The runs of work in which every request receives an HTTP response: the  *)
(* caller calls work, Node's event loop runs the setImmediate callbacks    *)
(* that are queued, and a request in flight is eventually answered.        *)
(* Weak fairness of RunImmediate and of AnswerPut is written out           *)
(*   WF_vars(A)  =  []<>(~ENABLED <<A>>_vars) \/ []<><<A>>_vars            *)
(* with the guard of the action for ENABLED <<A>>_vars: each of the two    *)
(* actions changes vars whenever its guard holds (RunImmediate changes the *)
(* phase of the invocation it resumes, AnswerPut the state of a request).  *)
LiveInit == Init /\ input.entry = "work"
AnswerPut ==
  \E i \in 1..Len(puts), status \in StatusCodes : PutResponse(i, status)
LiveNext == CallWork \/ RunImmediate \/ AnswerPut
ImmediateQueued == ~crashed /\ imm # <<>>
RequestInFlight == ~crashed /\ \E i \in PutIds : puts[i].state = "sent"
CallMade == ~called /\ input.entry = "work" /\ called' = TRUE
LiveSpec ==
  /\ LiveInit /\ [][LiveNext]_vars
  /\ WF_called(CallMade)
  /\ ([]<>(~ImmediateQueued) \/ []<><<RunImmediate>>_vars)
  /\ ([]<>(~RequestInFlight) \/ []<><<AnswerPut>>_vars)

(* C20: termination - when every request receives an HTTP response, a call *)
(* of work leads to a state with nothing queued or in flight in which      *)
(* every invocation that was started has called its completion callback    *)
(* once, and no invocation ever calls it more than once.                   *)
C20_Termination ==
  /\ called ~> (Quiescent /\ \A d \in Depths :
                              inv[d].active => inv[d].cbCalls = 1)
  /\ [](\A d \in Depths : inv[d].cbCalls <= 1)

(* a run with a subtree field and two writes of one phase that both failed *)
(* has ended with each invocation's callback called once                   *)
C20_Witness ==
  /\ input.entry = "work" /\ Quiescent
  /\ \A d \in Depths : inv[d].active /\ inv[d].cbCalls = 1
  /\ \E i, j \in PutIds :
       /\ i # j /\ puts[i].inv = puts[j].inv /\ puts[i].phase = puts[j].phase
       /\ puts[i].state = "failed" /\ puts[j].state = "failed"
(* C21: the working path of an invocation is set at most once, in its      *)
(* Naming phase (base, or base/name when obj has a name), and no later     *)
(* step changes it, a recursive invocation with a name of its own          *)
(* included; the Enable write of an invocation targets its own working     *)
(* path followed by adminStatus.                                           *)
C21_PathSetOnce ==
  /\ [](\A d \in Depths : inv[d].active => inv[d].node = ChildPath(d))
  /\ [](\A i \in PutIds :
          puts[i].phase = 4
            => puts[i].node =
                 StringNode(ChildPath(puts[i].inv) \o <<"adminStatus">>))
  /\ [][\A d \in Depths :
          inv[d].active => /\ inv'[d].node = inv[d].node
                           /\ inv'[d].base = inv[d].base]_vars

(* a named invocation has issued its Enable write after its recursive      *)
(* invocation, which has a name of its own, issued its name write          *)
C21_Witness ==
  /\ HasKey(inv[1].obj.o, "name") /\ inv[2].active
  /\ HasKey(inv[2].obj.o, "name")
  /\ inv[2].node = inv[2].base \o <<"h1">>
  /\ \E i, j \in PutIds :
       /\ i < j /\ puts[i].inv = 2 /\ puts[i].leaf = "name" /\ Sent(i)
       /\ puts[j].inv = 1 /\ puts[j].phase = 4 /\ Sent(j)
(* the calls of put made by invocation d *)
PutsOf(d) == {i \in PutIds : puts[i].inv = d}

(* C22: no retries and no duplicates - in one invocation each field of obj *)
(* leads to at most one call of put, whether the write succeeds or fails,  *)
(* and no path is written twice.                                           *)
C22_NoRetryNoDuplicate ==
  /\ \A i, j \in PutIds :
       i # j => /\ puts[i].inv = puts[j].inv => puts[i].leaf # puts[j].leaf
                /\ check_node(puts[i].node) => puts[i].node # puts[j].node
  /\ \A d \in Depths :
       /\ Cardinality(PutsOf(d)) <= Len(inv[d].obj.o)
       /\ \A i \in PutsOf(d) : HasKey(inv[d].obj.o, puts[i].leaf)

(* a run in which a write failed has ended, three or more writes issued *)
C22_Witness ==
  /\ Quiescent /\ ~crashed /\ Len(puts) >= 3
  /\ \E i \in PutIds : puts[i].state = "failed"
  /\ \E d \in Depths : inv[d].cbCalls = 1
(* the fields of the caller's obj that work writes as scalars *)
ScalarFields ==
  {e \in 1..Len(input.data) : Slot(input.data[e]) \in {0, 1, 2, 4}}

(* C23: empty input is a no-op - work on an empty obj calls put never and  *)
(* ends with one call of cb without an error; a slot without tasks         *)
(* completes at once, so that every scalar field is written whichever      *)
(* slots before its own are empty; a subtree field whose value is an empty *)
(* object sends no request.                                                *)
C23_EmptyIsNoOp ==
  input.entry = "work" =>
    /\ input.data = <<>>
         => /\ puts = <<>> /\ ~crashed /\ Len(userCb) <= 1
            /\ (called /\ imm = <<>>)
                 => userCb = <<[err |-> NoErr, msg |-> "<none>"]>>
    /\ (Quiescent /\ \A i \in PutIds : puts[i].state = "ok")
         => /\ inv[1].cbCalls = 1
            /\ \A e \in ScalarFields :
                 \E i \in PutIds :
                   puts[i].inv = 1 /\ puts[i].leaf = input.data[e].key
    /\ input.data = <<Entry("serviceHttp", Obj(<<>>))>>
         => /\ \A i \in PutIds : ~Sent(i)
            /\ PutsOf(2) = {}

(* work on an empty obj has ended *)
C23_Witness ==
  /\ input.entry = "work" /\ input.data = <<>> /\ Quiescent
  /\ inv[1].active /\ inv[1].key = 5 /\ inv[1].cbCalls = 1
====
